---- MODULE Spec2Model ----
(***************************************************************************)
(* Key custody and transaction authorization of vibecoins-mcp.             *)
(*                                                                         *)
(* Two keystore variants are modelled side by side:                        *)
(*   - the multi-identity keystore of src/lib/wallet.js (userId -> record  *)
(*     in data/wallets.json);                                              *)
(*   - the single-identity keystore of src/unnamed/part_002                *)
(*     (~/.vibecoin/wallet.json with a legacy location that is migrated    *)
(*     on module load).                                                    *)
(* A third slice runs the server of src/unnamed/part_003 over the          *)
(* multi-identity keystore: the coin launcher of src/unnamed/part_001 with *)
(* its listings and fees ledgers, and the handlers of the tools.           *)
(* The variable variant says which of the three a behaviour runs.          *)
(*                                                                         *)
(* A member of Procs is one server process (one per connected client); all *)
(* of them share the store file.  Every await of the source is a step      *)
(* boundary; file reads and writes are separate system calls.              *)
(*                                                                         *)
(* Cryptography is symbolic: a key, a ciphertext and an authentication tag *)
(* are terms built from their inputs, so decrypting under another key or   *)
(* after tampering is computed, never assumed.                             *)
(***************************************************************************)
EXTENDS Integers, Sequences, FiniteSets, TLC

\* ------------------------------------------------------------------ bounds
MaxUsers == 2
MaxPasswords == 2
MaxKeys == 2
MaxWei == 1
MaxTokens == 1

\* two server processes share the store file of the multi-identity variant
Procs == {1, 2}
UserIds == 1..MaxUsers
Passwords == 1..MaxPasswords
\* wallets generated in one run of the model: the n-th draw of the random
\* source yields the n-th private key, salt and iv, and happens at time n
PrivateKeys == 1..MaxKeys
Balances == 0..MaxWei
\* accumulated pool fees: ETH fees in tenths of an ether, token fees in tokens
PoolFees == 0..MaxWei
\* the fee result.fee of a launch, counted in hundredths of an ether
ApiFees == 0..MaxWei
Messages == {"hello"}
Destinations == {"0x00000000000000000000000000000000000000de", "not-an-address"}
\* an amount argument is a decimal string, identified with the wei it denotes,
\* or a string that is no decimal number
AmountInputs ==
    {[numeric |-> TRUE, wei |-> w] : w \in 0..(MaxWei + 1)}
        \cup {[numeric |-> FALSE, wei |-> 0]}

\* ------------------------------------------------- encryption settings
KEY_LENGTH == 32
IV_LENGTH == 16
SALT_LENGTH == 32
ITERATIONS == 100000
\* length of the tag cipher.getAuthTag() returns for aes-256-gcm
TAG_LENGTH == 16

\* ------------------------------------------------------ low-level errors
\* Messages of the errors the runtime throws, by where they arise.
MsgBadIv == "Invalid initialization vector"
MsgBadTagLength == "Invalid authentication tag length"
MsgAuthFailed == "Unsupported state or unable to authenticate data"
MsgNetwork == "could not detect network"
MsgNetworkUnauthorized == "server response 401 Unauthorized: authentication required"
MsgBadAmount == "invalid FixedNumber string value"
MsgBadJson == "Unexpected token < in JSON at position 0"
MsgTxFailed == "transaction execution reverted"
MsgFetchFailed == "fetch failed"
MsgWriteFailed == "ENOSPC: no space left on device, write"

\* err.message.includes('Unsupported state') || err.message.includes('auth')
includesUnsupportedStateOrAuth(msg) ==
    msg \in {MsgAuthFailed, MsgBadTagLength, MsgNetworkUnauthorized}

\* --------------------------------------------------------------- crypto
Bytes(len, val) == [len |-> len, val |-> val]

deriveKey(password, salt) ==
    [password |-> password, salt |-> salt.val,
     iterations |-> ITERATIONS, len |-> KEY_LENGTH]

\* aes-256-gcm as terms: the ciphertext binds key, iv and plaintext; the tag
\* binds key, iv and ciphertext.
GcmCiphertext(key, iv, text) ==
    [key |-> key, iv |-> iv.val, text |-> text, flipped |-> FALSE]

GcmTag(key, iv, ciphertext) ==
    [key |-> key, iv |-> iv.val, over |-> ciphertext, forged |-> FALSE]

\* a faulty encrypt, for comparison: the tag is taken before the text is fed
encryptTagBeforeUpdate(text, password, saltBytes, ivBytes) ==
    LET salt == Bytes(SALT_LENGTH, saltBytes)
        iv == Bytes(IV_LENGTH, ivBytes)
        key == deriveKey(password, salt)
        encrypted == GcmCiphertext(key, iv, text)
        tag == Bytes(TAG_LENGTH, GcmTag(key, iv, GcmCiphertext(key, iv, 0)))
    IN [salt |-> salt, iv |-> iv, tag |-> tag, encrypted |-> encrypted]

encrypt(text, password, saltBytes, ivBytes) ==
    LET salt == Bytes(SALT_LENGTH, saltBytes)
        iv == Bytes(IV_LENGTH, ivBytes)
        key == deriveKey(password, salt)
        encrypted == GcmCiphertext(key, iv, text)
        tag == Bytes(TAG_LENGTH, GcmTag(key, iv, encrypted))
    IN [salt |-> salt, iv |-> iv, tag |-> tag, encrypted |-> encrypted]

Thrown(msg) == [ok |-> FALSE, text |-> 0, message |-> msg]
Returned(text) == [ok |-> TRUE, text |-> text, message |-> ""]

\* a faulty decrypt, for comparison: the authentication tag is never verified
decryptUnauthenticated(encryptedData, password) ==
    Returned(encryptedData.encrypted.text)

decrypt(encryptedData, password) ==
    LET key == deriveKey(password, encryptedData.salt)
    IN IF encryptedData.iv.len = 0
         THEN Thrown(MsgBadIv)                       \* createDecipheriv
       ELSE IF encryptedData.tag.len # TAG_LENGTH
         THEN Thrown(MsgBadTagLength)                \* setAuthTag
       ELSE IF encryptedData.tag.val
                 # GcmTag(key, encryptedData.iv, encryptedData.encrypted)
         THEN Thrown(MsgAuthFailed)                  \* decipher.final
       ELSE Returned(encryptedData.encrypted.text)

\* new ethers.Wallet(privateKey).address
computeAddress(privateKey) == <<"0x", privateKey>>
NoAddress == <<"0x", 0>>
NoKey == 0

\* the wallet object: new ethers.Wallet(privateKey)
EthersWallet(privateKey) ==
    [privateKey |-> privateKey, address |-> computeAddress(privateKey)]

\* wallet.signMessage(message)
signMessageWith(privateKey, message) ==
    [signer |-> computeAddress(privateKey), message |-> message]
NoSignature == [signer |-> NoAddress, message |-> 0]


\* a faulty isAddress, for comparison: every destination is accepted
isAddressAlways(toAddress) == TRUE

\* ethers.isAddress(toAddress)
isAddress(toAddress) == toAddress = "0x00000000000000000000000000000000000000de"

\* ethers.parseEther(amount)
parseEther(amount) ==
    IF amount.numeric THEN Returned(amount.wei) ELSE Thrown(MsgBadAmount)

\* ---------------------------------------------------------------- state
VARIABLES
    variant,      \* "multi" (wallet.js), "single" (part_002), "launcher"
    walletsFile,  \* multi: data/wallets.json, userId -> record
    walletFile,   \* single: ~/.vibecoin/wallet.json, one record
    legacyFile,   \* single: <install>/data/wallet.json, one record
    dataDir,      \* whether DATA_DIR of the variant exists
    pc,           \* per process: position in the running call
    frame,        \* per process: arguments and locals of the running call
    result,       \* per process: the value the call returned
    effects,      \* per process: what the running call did to the outside
    minted,       \* how many wallets ethers.Wallet.createRandom() has made
    listings,     \* launcher: data/listings.json, the array of listings
    fees,         \* launcher: data/fees.json, records and per-user totals
    warned        \* per process: its caller was shown the transfer warning

vars == <<variant, walletsFile, walletFile, legacyFile, dataDir,
          pc, frame, result, effects, minted, listings, fees,
          warned>>

\* ------------------------------------------------------- stored records
\* the identity of the single-identity variant
DEFAULT_KEY == 0

NoRecord ==
    [address |-> NoAddress, encryptedKey |-> encrypt(NoKey, 0, 0, 0),
     createdAt |-> 0]
KeystoreRecord(address, encryptedKey, createdAt) ==
    [address |-> address, encryptedKey |-> encryptedKey,
     createdAt |-> createdAt]

\* a faulty NewRecord, for comparison: salt and iv are the same at every call
NewRecordFixedSalt(n, password) ==
    KeystoreRecord(computeAddress(n), encrypt(n, password, 1, 1), n)

\* the record createWallet builds from the n-th wallet it generates:
\* ethers.Wallet.createRandom(), encrypt(wallet.privateKey, password) with
\* its two crypto.randomBytes draws, new Date().toISOString()
NewRecord(n, password) ==
    KeystoreRecord(computeAddress(n), encrypt(n, password, n, n), n)

NoFile == [exists |-> FALSE, malformed |-> FALSE, wallet |-> NoRecord]
FileOf(record) == [exists |-> TRUE, malformed |-> FALSE, wallet |-> record]
\* what a write that fails midway leaves behind: a truncated document
PartialFile == [exists |-> TRUE, malformed |-> TRUE, wallet |-> NoRecord]

NoWalletsFile == [exists |-> FALSE, wallets |-> << >>]

\* ensureDataDir()
ensureDataDir == dataDir' = TRUE

\* loadWallets(): {} when the file is absent
loadWallets == IF walletsFile.exists THEN walletsFile.wallets ELSE << >>

\* saveWallets(wallets): the whole document is replaced
saveWallets(wallets) == walletsFile' = [exists |-> TRUE, wallets |-> wallets]

\* wallets[userId] = record
WithRecord(wallets, userId, record) ==
    [u \in (DOMAIN wallets) \cup {userId} |->
        IF u = userId THEN record ELSE wallets[u]]

\* a faulty hasRecord, for comparison: the existence check is missing
hasRecordNever(wallets, userId) == FALSE

\* if (wallets[userId]) / if (!wallets[userId])
hasRecord(wallets, userId) == userId \in DOMAIN wallets

\* loadWallet() of the single-identity variant: null when the file is absent,
\* JSON.parse throws on a truncated document
loadWallet ==
    IF ~walletFile.exists
      THEN [threw |-> FALSE, found |-> FALSE, record |-> NoRecord]
    ELSE IF walletFile.malformed
      THEN [threw |-> TRUE, found |-> FALSE, record |-> NoRecord]
    ELSE [threw |-> FALSE, found |-> TRUE, record |-> walletFile.wallet]

\* saveWallet(wallet)
saveWallet(wallet) == walletFile' = FileOf(wallet)

\* a faulty lookup, for comparison: the check for an absent record is missing
lookupAssumed(userId) ==
    [threw |-> FALSE, found |-> TRUE,
     record |-> IF variant # "single" /\ hasRecord(loadWallets, userId)
                  THEN loadWallets[userId] ELSE NoRecord]

\* the record an operation works on: wallets[userId] of loadWallets() over
\* the multi-identity keystore, loadWallet() in the single-identity variant
lookup(userId) ==
    IF variant # "single"
      THEN [threw |-> FALSE,
            found |-> hasRecord(loadWallets, userId),
            record |-> IF hasRecord(loadWallets, userId)
                         THEN loadWallets[userId] ELSE NoRecord]
      ELSE loadWallet

Identities ==
    IF variant = "multi" THEN UserIds
    ELSE IF variant = "single" THEN {DEFAULT_KEY}
    ELSE {}

\* ------------------------------------------------------ frames, results
\* the options of launchCoin: the lengths of name, symbol and description
NoOptions == [name |-> 0, symbol |-> 0, description |-> 0]

NoFrame ==
    [op |-> "none", userId |-> 0, password |-> 0, message |-> "",
     toAddress |-> "", amount |-> [numeric |-> FALSE, wei |-> 0],
     existed |-> FALSE, wallets |-> << >>, record |-> NoRecord,
     privateKey |-> NoKey, balance |-> 0, observed |-> FALSE,
     tokens |-> 0, index |-> 0, ethFees |-> 0, tokenFees |-> 0,
     tokenWorth |-> 0,
     collected |-> 0, skipped |-> 0, errors |-> 0,
     options |-> NoOptions, listingId |-> 0, response |-> "none",
     previous |-> "none", canonicalBefore |-> NoFile,
     legacyBefore |-> NoFile, walletData |-> NoFile]

NoResult ==
    [success |-> FALSE, threw |-> FALSE, error |-> "", detail |-> "",
     address |-> NoAddress, signature |-> NoSignature, method |-> "",
     have |-> 0, want |-> 0, wallet |-> NoKey,
     collected |-> 0, skipped |-> 0, errors |-> 0, totalEarned |-> 0]

NoEffects ==
    [generated |-> 0, fileWrites |-> 0, decrypts |-> 0, unlocked |-> 0,
     signatures |-> 0, balanceReads |-> 0, broadcasts |-> 0,
     directCalls |-> 0, remoteCalls |-> {}, requests |-> {},
     caught |-> FALSE]

ErrAlreadyExists == "Wallet already exists"
ErrNoWallet == "No wallet found"
ErrInvalidPassword == "Invalid password"
ErrInvalidAddress == "Invalid destination address"
ErrInsufficient == "Insufficient balance"
ErrSigningFailed == "Signing failed"
ErrTransferFailed == "Transfer failed"
ErrCollectFailed == "Fee collection failed"
ErrBalanceFailed == "Failed to get balance"
ErrApiFailed == "API request failed"
ErrConfigFetch == "Failed to fetch contract config from API"
ErrNoFeeHook == "Fee hook contract address not configured"
ErrGraphqlFetch == "Failed to fetch token data from GraphQL"
ErrGraphql == "GraphQL error"
ErrNoTokens == "No tokens found for this wallet"
ErrName == "Name must be 1-32 characters"
ErrSymbol == "Symbol must be 2-8 characters"
ErrDescription == "Description must be 500 characters or less"
ErrLaunch == "Failed to launch coin"
ErrLaunchFailed == "Launch failed"

Failure(error) == [NoResult EXCEPT !.error = error]
FailureWith(error, detail) == [NoResult EXCEPT !.error = error, !.detail = detail]
\* an exception that leaves the exported function
Escaped(msg) == [NoResult EXCEPT !.threw = TRUE, !.detail = msg]

\* the catch blocks of signMessage, transfer and collectFees
CatchResult(prefix, msg) ==
    IF includesUnsupportedStateOrAuth(msg)
      THEN Failure(ErrInvalidPassword)
      ELSE FailureWith(prefix, msg)

\* one process changes its own position, locals, result and effects
Step(p, newPc, newFrame, newResult, newEffects) ==
    /\ pc' = [pc EXCEPT ![p] = newPc]
    /\ frame' = [frame EXCEPT ![p] = newFrame]
    /\ result' = [result EXCEPT ![p] = newResult]
    /\ effects' = [effects EXCEPT ![p] = newEffects]

Return(p, value, newFrame, newEffects) == Step(p, "done", newFrame, value, newEffects)

Call(op, userId, password) ==
    [NoFrame EXCEPT !.op = op, !.userId = userId, !.password = password]

\* the record the call found
Found(call, record) == [call EXCEPT !.existed = TRUE, !.record = record]

\* the gas balance the account of the record has on chain during the call
OnChain(call, b) == [call EXCEPT !.balance = b]

\* a faulty Dropped, for comparison: the key outlives the call
Kept(f) == f

\* the key leaves scope when the call returns
Dropped(f) == [f EXCEPT !.privateKey = NoKey]

\* the only server process of the single-identity variant and of the server
\* slice; in the multi-identity variant, the process whose calls are explored
\* one at a time
Main == 1

\* Scheduling.  A call other than createWallet reads the store once, in its
\* first step, and then works on its own locals only: run beside any other
\* call it behaves as it does alone, so such calls are explored one at a time,
\* and, the processes being alike, as calls of the first process.
\* createWallet calls of different processes are explored in every
\* interleaving of their load and save steps.
Alone(p) == p = Main /\ \A q \in Procs \ {p} : pc[q] \in {"idle", "off"}
AmongCreates(p) ==
    \A q \in Procs \ {p} : pc[q] \in {"idle", "off"} \/ frame[q].op = "create"

\* a step that leaves the keystore files alone
KeystoreUnchanged ==
    UNCHANGED <<variant, walletsFile, walletFile, legacyFile, minted, warned>>

\* a step that touches no file
FilesUnchanged == KeystoreUnchanged /\ UNCHANGED <<listings, fees>>

\* ========================================== the exported operations
\* createWallet of src/lib/wallet.js, up to and excluding saveWallets(wallets)
createWallet(p, userId, password) ==
    /\ variant = "multi"
    /\ pc[p] = "idle"
    /\ AmongCreates(p)
    /\ LET wallets == loadWallets
           call == Call("create", userId, password)
       IN IF hasRecord(wallets, userId)
            THEN /\ Return(p, Failure(ErrAlreadyExists),
                           Found(call, wallets[userId]), NoEffects)
                 /\ UNCHANGED minted
            ELSE LET record == NewRecord(minted + 1, password)
                 IN /\ minted < MaxKeys
                    /\ minted' = minted + 1
                    /\ Step(p, "create_save",
                            [call EXCEPT
                               !.wallets = WithRecord(wallets, userId, record),
                               !.record = record],
                            NoResult,
                            [NoEffects EXCEPT !.generated = 1])
    /\ ensureDataDir
    /\ UNCHANGED <<warned, listings, fees, variant, walletsFile, walletFile, legacyFile>>

\* createWallet of src/lib/wallet.js: saveWallets(wallets), the success result
createWalletSave(p) ==
    /\ pc[p] = "create_save"
    /\ saveWallets(frame[p].wallets)
    /\ Return(p, [NoResult EXCEPT !.success = TRUE,
                                  !.address = frame[p].record.address],
              [frame[p] EXCEPT !.wallets = << >>],
              [effects[p] EXCEPT !.fileWrites = 1])
    /\ ensureDataDir
    /\ UNCHANGED <<warned, listings, fees, variant, walletFile, legacyFile, minted>>

\* createWallet of the single-identity variant
createWalletSingle(p, password) ==
    /\ variant = "single"
    /\ pc[p] = "idle"
    /\ LET existing == loadWallet
           call == Call("create", DEFAULT_KEY, password)
       IN IF existing.threw
            THEN /\ Return(p, Escaped(MsgBadJson), call, NoEffects)
                 /\ UNCHANGED <<walletFile, minted>>
          ELSE IF existing.found
            THEN /\ Return(p, [Failure(ErrAlreadyExists) EXCEPT
                                  !.address = existing.record.address],
                           Found(call, existing.record), NoEffects)
                 /\ UNCHANGED <<walletFile, minted>>
          ELSE LET record == NewRecord(minted + 1, password)
                 IN /\ minted < MaxKeys
                    /\ minted' = minted + 1
                    /\ saveWallet(record)
                    /\ Return(p, [NoResult EXCEPT !.success = TRUE,
                                     !.address = record.address],
                              [call EXCEPT !.record = record],
                              [NoEffects EXCEPT !.generated = 1,
                                                !.fileWrites = 1])
    /\ ensureDataDir
    /\ UNCHANGED <<warned, listings, fees, variant, walletsFile, legacyFile>>

getWalletAddress(p, userId) ==
    /\ pc[p] = "idle"
    /\ Alone(p)
    /\ LET stored == lookup(userId)
           call == Call("getAddress", userId, 0)
       IN IF stored.threw
            THEN Return(p, Escaped(MsgBadJson), call, NoEffects)
          ELSE IF ~stored.found
            THEN Return(p, Failure(ErrNoWallet), call, NoEffects)
          ELSE Return(p, [NoResult EXCEPT !.success = TRUE,
                             !.address = stored.record.address],
                      Found(call, stored.record), NoEffects)
    /\ ensureDataDir
    /\ FilesUnchanged

\* outcomes of a JSON-RPC request that fails
RpcErrors == {MsgNetwork, MsgNetworkUnauthorized}

getBalance(p, userId) ==
    /\ pc[p] = "idle"
    /\ Alone(p)
    /\ LET stored == lookup(userId)
           call == Call("getBalance", userId, 0)
           known == Found(call, stored.record)
           read == [NoEffects EXCEPT !.balanceReads = 1]
       IN IF stored.threw
            THEN Return(p, Escaped(MsgBadJson), call, NoEffects)
          ELSE IF ~stored.found
            THEN Return(p, Failure(ErrNoWallet), call, NoEffects)
          ELSE \/ \E b \in Balances :
                    Return(p, [NoResult EXCEPT !.success = TRUE,
                                  !.address = stored.record.address,
                                  !.have = b],
                           [OnChain(known, b) EXCEPT !.observed = TRUE], read)
               \/ \E msg \in RpcErrors :
                    Return(p, FailureWith(ErrBalanceFailed, msg), known, read)
    /\ ensureDataDir
    /\ FilesUnchanged

\* a faulty signResult, for comparison: the result carries the wallet object
signResultWithKey(wallet, message, signature) ==
    [NoResult EXCEPT !.success = TRUE, !.address = wallet.address,
                     !.signature = signature, !.wallet = wallet.privateKey]

\* signMessage: { success: true, address: wallet.address, message, signature }
signResult(wallet, message, signature) ==
    [NoResult EXCEPT !.success = TRUE, !.address = wallet.address,
                     !.signature = signature]

signMessage(p, userId, password, message) ==
    /\ pc[p] = "idle"
    /\ Alone(p)
    /\ LET stored == lookup(userId)
           call == [Call("sign", userId, password) EXCEPT !.message = message]
           known == Found(call, stored.record)
           opened == decrypt(stored.record.encryptedKey, password)
           tried == [NoEffects EXCEPT !.decrypts = 1]
       IN IF stored.threw
            THEN Return(p, Escaped(MsgBadJson), call, NoEffects)
          ELSE IF ~stored.found
            THEN Return(p, Failure(ErrNoWallet), call, NoEffects)
          ELSE IF ~opened.ok
            THEN Return(p, CatchResult(ErrSigningFailed, opened.message),
                        known, tried)
          ELSE Return(p,
                 signResult(EthersWallet(opened.text), message,
                            signMessageWith(opened.text, message)),
                 known, [tried EXCEPT !.unlocked = 1, !.signatures = 1])
    /\ ensureDataDir
    /\ FilesUnchanged

getDecryptedWallet(p, userId, password) ==
    /\ pc[p] = "idle"
    /\ Alone(p)
    /\ LET stored == lookup(userId)
           call == Call("getDecryptedWallet", userId, password)
           known == Found(call, stored.record)
           opened == decrypt(stored.record.encryptedKey, password)
           tried == [NoEffects EXCEPT !.decrypts = 1]
       IN IF stored.threw
            THEN Return(p, Escaped(MsgBadJson), call, NoEffects)
          ELSE IF ~stored.found
            THEN Return(p, Failure(ErrNoWallet), call, NoEffects)
          ELSE IF ~opened.ok
            THEN Return(p, Failure(ErrInvalidPassword), known, tried)
          ELSE Return(p,
                 [NoResult EXCEPT !.success = TRUE,
                    !.address = computeAddress(opened.text),
                    !.wallet = opened.text],
                 known, [tried EXCEPT !.unlocked = 1])
    /\ ensureDataDir
    /\ FilesUnchanged

\* faulty gates, for comparison: the gate is missing; the gate is off by one
insufficientNever(balance, amountWei) == FALSE
insufficientOffByOne(balance, amountWei) == balance + 1 < amountWei

\* balance < amountWei
insufficient(balance, amountWei) == balance < amountWei

\* transfer: load, validate the destination, decrypt
transfer(p, userId, password, toAddress, amount) ==
    /\ pc[p] = "idle"
    /\ Alone(p)
    /\ \E onChain \in Balances :
       LET stored == lookup(userId)
           call == [Call("transfer", userId, password) EXCEPT
                       !.toAddress = toAddress, !.amount = amount]
           known == OnChain(Found(call, stored.record), onChain)
           opened == decrypt(stored.record.encryptedKey, password)
           tried == [NoEffects EXCEPT !.decrypts = 1]
       IN IF stored.threw
            THEN Return(p, Escaped(MsgBadJson), call, NoEffects)
          ELSE IF ~stored.found
            THEN Return(p, Failure(ErrNoWallet), call, NoEffects)
          ELSE IF ~isAddress(toAddress)
            THEN Return(p, Failure(ErrInvalidAddress), known, NoEffects)
          ELSE IF ~opened.ok
            THEN Return(p, CatchResult(ErrTransferFailed, opened.message),
                        known, tried)
          ELSE Step(p, "transfer_balance",
                    [known EXCEPT !.privateKey = opened.text],
                    NoResult, [tried EXCEPT !.unlocked = 1])
    /\ ensureDataDir
    /\ FilesUnchanged

\* transfer: await provider.getBalance, parseEther, the balance gate
transferBalance(p) ==
    /\ pc[p] = "transfer_balance"
    /\ LET f == frame[p]
           read == [effects[p] EXCEPT !.balanceReads = 1]
           amountWei == parseEther(f.amount)
       IN \/ \E msg \in RpcErrors :
               Return(p, CatchResult(ErrTransferFailed, msg), Dropped(f), read)
          \/ LET balance == f.balance
                  g == [f EXCEPT !.observed = TRUE]
              IN IF ~amountWei.ok
                   THEN Return(p, CatchResult(ErrTransferFailed, amountWei.message),
                               Dropped(g), read)
                 ELSE IF insufficient(balance, amountWei.text)
                   THEN Return(p, [Failure(ErrInsufficient) EXCEPT
                                      !.have = balance, !.want = f.amount.wei],
                               Dropped(g), read)
                 ELSE Step(p, "transfer_send", g, NoResult, read)
    /\ UNCHANGED dataDir
    /\ FilesUnchanged

\* transfer: await wallet.sendTransaction
transferSend(p) ==
    /\ pc[p] = "transfer_send"
    /\ \/ Step(p, "transfer_wait", frame[p], NoResult,
               [effects[p] EXCEPT !.broadcasts = @ + 1])
       \/ \E msg \in RpcErrors :
            Return(p, CatchResult(ErrTransferFailed, msg), Dropped(frame[p]),
                   effects[p])
    /\ UNCHANGED dataDir
    /\ FilesUnchanged

\* a faulty transferWait, for comparison: a failed wait sends once more
transferWaitRetrying(p) ==
    /\ pc[p] = "transfer_wait"
    /\ \/ Return(p, [NoResult EXCEPT !.success = TRUE,
                        !.address = computeAddress(frame[p].privateKey),
                        !.want = frame[p].amount.wei],
                 Dropped(frame[p]), effects[p])
       \/ /\ effects[p].broadcasts < 2
          /\ Step(p, "transfer_send", frame[p], NoResult, effects[p])
    /\ UNCHANGED dataDir
    /\ FilesUnchanged

\* transfer: await tx.wait() and the success result
transferWait(p) ==
    /\ pc[p] = "transfer_wait"
    /\ \/ Return(p, [NoResult EXCEPT !.success = TRUE,
                        !.address = computeAddress(frame[p].privateKey),
                        !.want = frame[p].amount.wei],
                 Dropped(frame[p]), effects[p])
       \/ \E msg \in RpcErrors \cup {MsgTxFailed} :
            Return(p, CatchResult(ErrTransferFailed, msg), Dropped(frame[p]),
                   effects[p])
    /\ UNCHANGED dataDir
    /\ FilesUnchanged

\* `Collect fees for ${wallet.address}\nTimestamp: ...`
collectFeesMessage(walletAddress) ==
    [purpose |-> "Collect fees", name |-> 0, symbol |-> 0,
     address |-> walletAddress]

\* a faulty collectFeesRequest, for comparison: the key travels with it
collectFeesRequestWithKey(wallet, message, signature) ==
    [endpoint |-> "/api/collect-fees",
     body |-> {<<"walletAddress", wallet.address>>,
               <<"message", message>>,
               <<"signature", signature>>,
               <<"privateKey", wallet.privateKey>>}]

\* the body of POST /api/collect-fees
collectFeesRequest(wallet, message, signature) ==
    [endpoint |-> "/api/collect-fees",
     body |-> {<<"walletAddress", wallet.address>>,
               <<"message", message>>,
               <<"signature", signature>>}]

\* GET /api/config carries no body
configRequest == [endpoint |-> "/api/config", body |-> {}]

\* wallet.address.toLowerCase(): the checksum casing is lost
toLowerCase(address) == <<"0x", address[2], "lowercase">>

\* the body of the GraphQL query: { query, variables: { creator } }
graphqlRequest(walletAddress) ==
    [endpoint |-> "/graphql",
     body |-> {<<"creator", toLowerCase(walletAddress)>>}]

\* a faulty zeroBalance, for comparison: the branch is inverted
zeroBalanceInverted(balance) == balance # 0

\* balance === 0n
zeroBalance(balance) == balance = 0

\* collectFees of src/lib/wallet.js: load, decrypt
collectFees(p, userId, password) ==
    /\ variant = "multi"
    /\ pc[p] = "idle"
    /\ Alone(p)
    /\ \E onChain \in Balances :
       LET stored == lookup(userId)
           call == Call("collectFees", userId, password)
           known == OnChain(Found(call, stored.record), onChain)
           opened == decrypt(stored.record.encryptedKey, password)
           tried == [NoEffects EXCEPT !.decrypts = 1]
       IN IF ~stored.found
            THEN Return(p, Failure(ErrNoWallet), call, NoEffects)
          ELSE IF ~opened.ok
            THEN Return(p, CatchResult(ErrCollectFailed, opened.message),
                        known, tried)
          ELSE Step(p, "collect_balance",
                    [known EXCEPT !.privateKey = opened.text],
                    NoResult, [tried EXCEPT !.unlocked = 1])
    /\ ensureDataDir
    /\ FilesUnchanged

\* collectFees: await provider.getBalance and the branch on it
collectFeesBalance(p) ==
    /\ pc[p] = "collect_balance"
    /\ LET f == frame[p]
           read == [effects[p] EXCEPT !.balanceReads = 1]
       IN \/ \E msg \in RpcErrors :
               Return(p, CatchResult(ErrCollectFailed, msg), Dropped(f), read)
          \/ LET g == [f EXCEPT !.observed = TRUE]
              IN IF zeroBalance(f.balance)
                   THEN Step(p, "collect_post", g, NoResult,
                             [read EXCEPT !.signatures = 1])
                   ELSE Step(p, "collect_config", g, NoResult, read)
    /\ UNCHANGED dataDir
    /\ FilesUnchanged

\* collectFees: POST /api/collect-fees with address, message and signature
collectFeesPost(p) ==
    /\ pc[p] = "collect_post"
    /\ LET f == Dropped(frame[p])
           wallet == EthersWallet(frame[p].privateKey)
           message == collectFeesMessage(wallet.address)
           signature == signMessageWith(frame[p].privateKey, message)
           sent == [effects[p] EXCEPT
                      !.remoteCalls = @ \cup {"/api/collect-fees"},
                      !.requests = @ \cup {collectFeesRequest(wallet, message,
                                                              signature)}]
       IN \/ \E msg \in {MsgNetwork, MsgBadJson} :
               Return(p, CatchResult(ErrCollectFailed, msg), f, sent)
          \/ Return(p, Failure(ErrApiFailed), f, sent)
          \/ Return(p, [NoResult EXCEPT !.success = TRUE, !.method = "api"],
                    f, sent)
    /\ UNCHANGED dataDir
    /\ FilesUnchanged

\* collectFees: GET /api/config for the fee hook address
collectFeesConfig(p) ==
    /\ pc[p] = "collect_config"
    /\ LET f == frame[p]
           sent == [effects[p] EXCEPT
                      !.remoteCalls = @ \cup {"/api/config"},
                      !.requests = @ \cup {configRequest}]
       IN \/ \E msg \in {MsgNetwork, MsgBadJson} :
               Return(p, CatchResult(ErrCollectFailed, msg), Dropped(f), sent)
          \/ Return(p, Failure(ErrConfigFetch), Dropped(f), sent)
          \/ Return(p, Failure(ErrNoFeeHook), Dropped(f), sent)
          \/ Step(p, "collect_claim", f, NoResult, sent)
    /\ UNCHANGED dataDir
    /\ FilesUnchanged

\* collectFees: await feeHook.claimFees(wallet.address)
collectFeesClaim(p) ==
    /\ pc[p] = "collect_claim"
    /\ LET called == [effects[p] EXCEPT !.directCalls = @ + 1]
       IN \/ Step(p, "collect_wait", frame[p], NoResult,
                  [called EXCEPT !.broadcasts = @ + 1])
          \/ \E msg \in RpcErrors :
               Return(p, CatchResult(ErrCollectFailed, msg), Dropped(frame[p]),
                      called)
    /\ UNCHANGED dataDir
    /\ FilesUnchanged

\* collectFees: await tx.wait() and the success result
collectFeesWait(p) ==
    /\ pc[p] = "collect_wait"
    /\ \/ Return(p, [NoResult EXCEPT !.success = TRUE, !.method = "direct"],
                 Dropped(frame[p]), effects[p])
       \/ \E msg \in RpcErrors \cup {MsgTxFailed} :
            Return(p, CatchResult(ErrCollectFailed, msg), Dropped(frame[p]),
                   effects[p])
    /\ UNCHANGED dataDir
    /\ FilesUnchanged

\* ================================ collectFees of the single-identity variant
\* ethers.parseEther("0.1"), in tenths of an ether
MIN_FEE_COLLECTION == 1

\* ethFees < MIN_FEE_COLLECTION && tokenFees === 0n
belowMinimum(ethFees, tokenFees) ==
    ethFees < MIN_FEE_COLLECTION /\ tokenFees = 0

\* what the hook's conversion of a pool's token fees yields, in tenths of an
\* ether: nothing for no token fees, and any amount, also none, otherwise
TokenWorths(tokenFees) == IF tokenFees = 0 THEN {0} ELSE PoolFees

\* collectFees: load, decrypt
collectFeesSingle(p, password) ==
    /\ variant = "single"
    /\ pc[p] = "idle"
    /\ \E onChain \in Balances :
       LET stored == loadWallet
           call == Call("collectFees", DEFAULT_KEY, password)
           known == OnChain(Found(call, stored.record), onChain)
           opened == decrypt(stored.record.encryptedKey, password)
           tried == [NoEffects EXCEPT !.decrypts = 1]
       IN IF stored.threw
            THEN Return(p, Escaped(MsgBadJson), call, NoEffects)
          ELSE IF ~stored.found
            THEN Return(p, Failure(ErrNoWallet), call, NoEffects)
          ELSE IF ~opened.ok
            THEN Return(p, CatchResult(ErrCollectFailed, opened.message),
                        known, tried)
          ELSE Step(p, "graphql",          \* the balance is never read
                    [known EXCEPT !.privateKey = opened.text],
                    NoResult, [tried EXCEPT !.unlocked = 1])
    /\ ensureDataDir
    /\ FilesUnchanged

\* collectFees: the GraphQL query for the creator's tokens
collectFeesGraphql(p) ==
    /\ pc[p] = "graphql"
    /\ LET f == frame[p]
           sent == [effects[p] EXCEPT
                      !.remoteCalls = @ \cup {"/graphql"},
                      !.requests =
                         @ \cup {graphqlRequest(computeAddress(f.privateKey))}]
       IN \/ \E msg \in {MsgNetwork, MsgBadJson} :
               Return(p, CatchResult(ErrCollectFailed, msg), Dropped(f), sent)
          \/ Return(p, Failure(ErrGraphqlFetch), Dropped(f), sent)
          \/ Return(p, Failure(ErrGraphql), Dropped(f), sent)
          \/ \E n \in 0..MaxTokens :
               IF n = 0
                 THEN Return(p, Failure(ErrNoTokens), Dropped(f), sent)
                 ELSE Step(p, "pool_fees",
                           [f EXCEPT !.tokens = n, !.index = 1], NoResult, sent)
    /\ UNCHANGED dataDir
    /\ FilesUnchanged

\* collectFees: the end of one iteration of for (const token of tokens)
NextToken(p, f, e) ==
    IF f.index = f.tokens
      THEN Return(p, [NoResult EXCEPT !.success = TRUE,
                         !.collected = f.collected, !.skipped = f.skipped,
                         !.errors = f.errors],
                  Dropped(f), e)
      ELSE Step(p, "pool_fees",
                [f EXCEPT !.index = @ + 1, !.ethFees = 0, !.tokenFees = 0,
                          !.tokenWorth = 0],
                NoResult, e)

\* collectFees: getPoolFees, getPoolTokenFees and the minimum check
collectFeesPoolFees(p) ==
    /\ pc[p] = "pool_fees"
    /\ LET f == frame[p]
       IN \/ NextToken(p, [f EXCEPT !.errors = @ + 1], effects[p])
          \/ \E ethFees \in PoolFees, tokenFees \in PoolFees :
             \E worth \in TokenWorths(tokenFees) :
               IF belowMinimum(ethFees, tokenFees)
                 THEN NextToken(p, [f EXCEPT !.skipped = @ + 1,
                                      !.ethFees = ethFees,
                                      !.tokenFees = tokenFees], effects[p])
                 ELSE Step(p, "pool_collect",
                           [f EXCEPT !.ethFees = ethFees,
                                     !.tokenFees = tokenFees,
                                     !.tokenWorth = worth],
                           NoResult, effects[p])
    /\ UNCHANGED dataDir
    /\ FilesUnchanged

\* collectFees: await hook.collectFees(poolId)
collectFeesPoolCollect(p) ==
    /\ pc[p] = "pool_collect"
    /\ LET called == [effects[p] EXCEPT !.directCalls = @ + 1]
       IN \/ Step(p, "pool_wait", frame[p], NoResult,
                  [called EXCEPT !.broadcasts = @ + 1])
          \/ NextToken(p, [frame[p] EXCEPT !.errors = @ + 1], called)
    /\ UNCHANGED dataDir
    /\ FilesUnchanged

\* collectFees: await tx.wait()
collectFeesPoolWait(p) ==
    /\ pc[p] = "pool_wait"
    /\ \/ NextToken(p, [frame[p] EXCEPT !.collected = @ + 1], effects[p])
       \/ NextToken(p, [frame[p] EXCEPT !.errors = @ + 1], effects[p])
    /\ UNCHANGED dataDir
    /\ FilesUnchanged

\* ================================================ launchCoin of launcher.js
NAME_MAX == 32
SYMBOL_MIN == 2
SYMBOL_MAX == 8
DESCRIPTION_MAX == 500

\* the option lengths a caller supplies: absent, well-formed, too long
LaunchOptions ==
    [name : {0, 4, NAME_MAX + 1},
     symbol : {1, 4},
     description : {0, DESCRIPTION_MAX + 1}]

\* !name || name.length < 1 || name.length > 32
badName(options) == options.name < 1 \/ options.name > NAME_MAX

\* !symbol || symbol.length < 2 || symbol.length > 8
badSymbol(options) ==
    options.symbol < SYMBOL_MIN \/ options.symbol > SYMBOL_MAX

\* description && description.length > 500
badDescription(options) == options.description > DESCRIPTION_MAX

\* hasWallet(userId)
hasWallet(userId) == hasRecord(loadWallets, userId)

\* `Launch coin on Billionaire ... Name ... Symbol ... Creator ...`
launchMessage(options, walletAddress) ==
    [purpose |-> "Launch coin", name |-> options.name,
     symbol |-> options.symbol, address |-> walletAddress]

\* the body of POST /api/launch
launchRequest(wallet, message, signature, options) ==
    [endpoint |-> "/api/launch",
     body |-> {<<"walletAddress", wallet.address>>,
               <<"signature", signature>>,
               <<"message", message>>,
               <<"name", options.name>>,
               <<"symbol", options.symbol>>,
               <<"description", options.description>>}]

\* addListing: the n-th listing gets id n (crypto.randomUUID())
addListing(userId, walletAddress) ==
    Append(listings,
           [id |-> Len(listings) + 1, creator |-> userId,
            creatorAddress |-> walletAddress, status |-> "pending",
            contractAddress |-> "none"])

\* updateListing(id, { status, contractAddress })
updateListing(id, status, contractAddress) ==
    [i \in DOMAIN listings |->
       IF listings[i].id = id
         THEN [listings[i] EXCEPT !.status = status,
                                  !.contractAddress = contractAddress]
         ELSE listings[i]]

\* no fees.json yet: loadFees() returns { records: [], totals: {} }
NoFees == [records |-> << >>, totals |-> << >>]

NoTotals == [totalEarned |-> 0, launchFees |-> 0, coinCount |-> 0]

\* recordFee({ userId, type: 'launch', amount, coinId })
recordFee(userId, amount, coinId) ==
    LET before == IF userId \in DOMAIN fees.totals
                    THEN fees.totals[userId] ELSE NoTotals
        after == [totalEarned |-> before.totalEarned + amount,
                  launchFees |-> before.launchFees + amount,
                  coinCount |-> before.coinCount + 1]
    IN [records |-> Append(fees.records,
                           [userId |-> userId, type |-> "launch",
                            amount |-> amount, coinId |-> coinId]),
        totals |-> [u \in (DOMAIN fees.totals) \cup {userId} |->
                      IF u = userId THEN after ELSE fees.totals[u]]]

\* amount: '0.01' of the stub mode, in hundredths of an ether
STUB_FEE == 1

\* getMyFees(userId): { success, summary: { totalEarned, ... }, breakdown }
getMyFees(userId) ==
    LET userTotals == IF userId \in DOMAIN fees.totals
                        THEN fees.totals[userId] ELSE NoTotals
    IN [success |-> TRUE,
        summary |-> [totalEarned |-> userTotals.totalEarned,
                     launchFees |-> userTotals.launchFees,
                     coinsLaunched |-> userTotals.coinCount],
        breakdown |-> {r.coinId : r \in {fees.records[i] :
                                           i \in {j \in DOMAIN fees.records :
                                                    fees.records[j].userId = userId}}}]

\* object.name of JavaScript: undefined when the object has no such property
Property(object, name) ==
    IF name \in DOMAIN object
      THEN [defined |-> TRUE, value |-> object[name]]
      ELSE [defined |-> FALSE, value |-> 0]

\* property || "0", for a property that is undefined or a non-empty string
orDefault(property, default) ==
    IF property.defined THEN property.value ELSE default

\* the my-fees tool, action summary: totalEarned: feesData.totalEarned || "0"
myFeesSummary(feesData) ==
    [success |-> TRUE,
     totalEarned |-> orDefault(Property(feesData, "totalEarned"), 0),
     totalCoins |-> orDefault(Property(feesData, "totalCoins"), 0)]

\* the my-fees tool of the server, action summary
myFees(p, userId) ==
    /\ variant = "launcher"
    /\ pc[p] = "idle"
    /\ Alone(p)
    /\ LET feesData == getMyFees(userId)
           summary == myFeesSummary(feesData)
       IN Return(p, [NoResult EXCEPT !.success = summary.success,
                                     !.totalEarned = summary.totalEarned],
                 Call("myFees", userId, 0), NoEffects)
    /\ ensureDataDir
    /\ FilesUnchanged

\* err.cause?.code === 'ECONNREFUSED' || err.message.includes('fetch')
stubMode(msg) == msg = MsgFetchFailed

\* launchCoin: validation, hasWallet, getDecryptedWallet
launchCoin(p, userId, password, options) ==
    /\ variant = "launcher"
    /\ pc[p] = "idle"
    /\ Alone(p)
    /\ Len(listings) < MaxTokens
    /\ LET call == [Call("launch", userId, password) EXCEPT
                       !.options = options]
           known == Found(call, IF hasWallet(userId)
                                  THEN loadWallets[userId] ELSE NoRecord)
           opened == decrypt(known.record.encryptedKey, password)
           tried == [NoEffects EXCEPT !.decrypts = 1]
       IN IF badName(options)
            THEN Return(p, Failure(ErrName), call, NoEffects)
                 /\ UNCHANGED dataDir
          ELSE IF badSymbol(options)
            THEN Return(p, Failure(ErrSymbol), call, NoEffects)
                 /\ UNCHANGED dataDir
          ELSE IF badDescription(options)
            THEN Return(p, Failure(ErrDescription), call, NoEffects)
                 /\ UNCHANGED dataDir
          ELSE IF ~hasWallet(userId)
            THEN Return(p, Failure(ErrNoWallet), call, NoEffects)
                 /\ ensureDataDir
          ELSE IF ~opened.ok
            THEN Return(p, Failure(ErrInvalidPassword), known, tried)
                 /\ ensureDataDir
          ELSE Step(p, "launch_sign",
                    [known EXCEPT !.privateKey = opened.text],
                    NoResult, [tried EXCEPT !.unlocked = 1])
               /\ ensureDataDir
    /\ FilesUnchanged

\* launchCoin: await wallet.signMessage(message), then addListing (pending);
\* an error addListing throws leaves launchCoin
launchCoinSign(p) ==
    /\ pc[p] = "launch_sign"
    /\ LET f == frame[p]
           wallet == EthersWallet(f.privateKey)
           signed == [effects[p] EXCEPT !.signatures = 1]
       IN \/ /\ listings' = addListing(f.userId, wallet.address)
             /\ Step(p, "launch_post",
                     [f EXCEPT !.listingId = Len(listings) + 1],
                     NoResult, [signed EXCEPT !.fileWrites = @ + 1])
          \/ /\ UNCHANGED listings
             /\ Return(p, Escaped(MsgWriteFailed), Dropped(f), signed)
    /\ ensureDataDir
    /\ KeystoreUnchanged
    /\ UNCHANGED fees

\* launchCoin: POST /api/launch, updateListing, recordFee, the result, and
\* the catch block.  The API answers with success or with a failure, is
\* unreachable, or sends what response.json() cannot parse; a write of
\* listings.json or fees.json can fail, inside the try block and inside the
\* catch block, where nothing catches it.
launchCoinPost(p) ==
    /\ pc[p] = "launch_post"
    /\ LET f == frame[p]
           wallet == EthersWallet(f.privateKey)
           message == launchMessage(f.options, wallet.address)
           signature == signMessageWith(f.privateKey, message)
           sent == [effects[p] EXCEPT
                      !.remoteCalls = @ \cup {"/api/launch"},
                      !.requests = @ \cup {launchRequest(wallet, message,
                                                         signature, f.options)}]
           wrote(n) == [sent EXCEPT !.fileWrites = @ + n]
           launched == [NoResult EXCEPT !.success = TRUE,
                                        !.address = wallet.address]
           answered(response) == Dropped([f EXCEPT !.response = response])
           \* catch (err), no stub mode: updateListing(failed), which saves
           \* or throws in its turn; left is the status the listing then has
           Caught(msg, response, contractAddress, left) ==
               \/ /\ listings' = updateListing(f.listingId, "failed",
                                               contractAddress)
                  /\ Return(p, FailureWith(ErrLaunchFailed, msg),
                            answered(response), wrote(1))
               \/ /\ listings' = updateListing(f.listingId, left,
                                               contractAddress)
                  /\ Return(p, Escaped(MsgWriteFailed), answered(response),
                            sent)
       IN \/ \E msg \in {MsgFetchFailed, MsgBadJson} :
               IF stubMode(msg)
                 THEN \/ /\ listings' = updateListing(f.listingId, "launched",
                                                      "mock")
                         /\ fees' = recordFee(f.userId, STUB_FEE, f.listingId)
                         /\ Return(p, [launched EXCEPT !.method = "stub"],
                                   answered("unreachable"), wrote(2))
                      \/ /\ UNCHANGED <<listings, fees>>
                         /\ Return(p, Escaped(MsgWriteFailed),
                                   answered("unreachable"), sent)
                 ELSE /\ Caught(msg, "garbled", "none", "pending")
                      /\ UNCHANGED fees
          \/ /\ listings' = updateListing(f.listingId, "failed", "none")
             /\ UNCHANGED fees
             /\ Return(p, Failure(ErrLaunch), answered("failure"), wrote(1))
          \/ /\ Caught(MsgWriteFailed, "failure", "none", "pending")
             /\ UNCHANGED fees
          \/ \E fee \in ApiFees :
               /\ listings' = updateListing(f.listingId, "launched", "deployed")
               /\ fees' = recordFee(f.userId, fee, f.listingId)
               /\ Return(p, [launched EXCEPT !.method = "api"],
                         answered("success"), wrote(2))
          \/ /\ Caught(MsgWriteFailed, "success", "none", "pending")
             /\ UNCHANGED fees
          \/ /\ Caught(MsgWriteFailed, "success", "deployed", "launched")
             /\ UNCHANGED fees
    /\ ensureDataDir
    /\ KeystoreUnchanged

\* ============================================ migration on module load
\* the catch block of migrateWalletIfNeeded
MigrationFailed(p) ==
    Return(p, NoResult, frame[p], [effects[p] EXCEPT !.caught = TRUE])

\* a faulty migrateWalletIfNeeded, for comparison: the check of the canonical
\* store is missing
migrateWalletUnchecked(p) ==
    /\ pc[p] = "load"
    /\ LET f == [frame[p] EXCEPT !.canonicalBefore = walletFile,
                                 !.legacyBefore = legacyFile]
       IN IF legacyFile.exists
            THEN Step(p, "migrate_mkdir", f, NoResult, NoEffects)
            ELSE Return(p, NoResult, f, NoEffects)
    /\ UNCHANGED dataDir
    /\ FilesUnchanged

\* migrateWalletIfNeeded: the two existsSync checks
migrateWalletIfNeeded(p) ==
    /\ pc[p] = "load"
    /\ LET f == [frame[p] EXCEPT !.canonicalBefore = walletFile,
                                 !.legacyBefore = legacyFile]
       IN IF walletFile.exists
            THEN Return(p, NoResult, f, NoEffects)
          ELSE IF legacyFile.exists
            THEN Step(p, "migrate_mkdir", f, NoResult, NoEffects)
          ELSE Return(p, NoResult, f, NoEffects)
    /\ UNCHANGED dataDir
    /\ FilesUnchanged

\* migrateWalletIfNeeded: mkdirSync(DATA_DIR) when it is missing
migrateMkdir(p) ==
    /\ pc[p] = "migrate_mkdir"
    /\ IF dataDir
         THEN /\ Step(p, "migrate_read", frame[p], NoResult, effects[p])
              /\ UNCHANGED dataDir
         ELSE \/ /\ dataDir' = TRUE
                 /\ Step(p, "migrate_read", frame[p], NoResult,
                         [effects[p] EXCEPT !.fileWrites = @ + 1])
              \/ /\ MigrationFailed(p)
                 /\ UNCHANGED dataDir
    /\ FilesUnchanged

\* migrateWalletIfNeeded: readFileSync(LEGACY_WALLET_FILE)
migrateRead(p) ==
    /\ pc[p] = "migrate_read"
    /\ \/ Step(p, "migrate_write", [frame[p] EXCEPT !.walletData = legacyFile],
               NoResult, effects[p])
       \/ MigrationFailed(p)
    /\ UNCHANGED dataDir
    /\ FilesUnchanged

\* a faulty migrateWrite, for comparison: a failed write is not caught before
\* the unlink
migrateWriteUncaught(p) ==
    /\ pc[p] = "migrate_write"
    /\ \/ /\ walletFile' = frame[p].walletData
          /\ Step(p, "migrate_unlink", frame[p], NoResult,
                  [effects[p] EXCEPT !.fileWrites = @ + 1])
       \/ /\ walletFile' = PartialFile
          /\ Step(p, "migrate_unlink", frame[p], NoResult,
                  [effects[p] EXCEPT !.fileWrites = @ + 1, !.caught = TRUE])
    /\ UNCHANGED <<warned, listings, fees, variant, walletsFile, legacyFile, dataDir, minted>>

\* migrateWalletIfNeeded: writeFileSync(WALLET_FILE, walletData)
migrateWrite(p) ==
    /\ pc[p] = "migrate_write"
    /\ \/ /\ walletFile' = frame[p].walletData
          /\ Step(p, "migrate_unlink", frame[p], NoResult,
                  [effects[p] EXCEPT !.fileWrites = @ + 1])
       \/ /\ walletFile' = PartialFile          \* fails after truncating
          /\ Return(p, NoResult, frame[p],
                    [effects[p] EXCEPT !.fileWrites = @ + 1, !.caught = TRUE])
       \/ /\ MigrationFailed(p)                 \* fails before opening
          /\ UNCHANGED walletFile
    /\ UNCHANGED <<warned, listings, fees, variant, walletsFile, legacyFile, dataDir, minted>>

\* migrateWalletIfNeeded: unlinkSync(LEGACY_WALLET_FILE)
migrateUnlink(p) ==
    /\ pc[p] = "migrate_unlink"
    /\ \/ /\ legacyFile' = NoFile
          /\ Return(p, NoResult, frame[p],
                    [effects[p] EXCEPT !.fileWrites = @ + 1])
       \/ /\ MigrationFailed(p)
          /\ UNCHANGED legacyFile
    /\ UNCHANGED <<warned, listings, fees, variant, walletsFile, walletFile, dataDir, minted>>

\* the process of the single-identity variant is started again: the module
\* is loaded and the migration runs once more
Restart(p) ==
    /\ variant = "single"
    /\ pc[p] \in {"idle", "done"}
    /\ Step(p, "load",
            [NoFrame EXCEPT
               !.op = "migrate",
               !.previous = IF pc[p] = "done" /\ frame[p].op = "migrate"
                              THEN IF effects[p].caught THEN "failed"
                                   ELSE IF effects[p].fileWrites > 0
                                     THEN "migrated" ELSE "skipped"
                              ELSE "none"],
            NoResult, NoEffects)
    /\ UNCHANGED dataDir
    /\ FilesUnchanged

\* the wallet tool of the server, action transfer: password, toAddress and
\* amount are present, so the handler calls transfer
walletToolTransfer(p, userId, password, toAddress, amount) ==
    /\ variant = "launcher"
    /\ transfer(p, userId, password, toAddress, amount)

\* the wallet tool, action transfer: transferResult.warning is set when
\* transferResult.success, after transfer has returned
toolWarning(action, toolResult) == action = "transfer" /\ toolResult.success

\* the caller takes the result; the response of a tool of the server is the
\* result with what the tool handler attached to it; the next call starts
\* afresh
Finish(p) ==
    /\ pc[p] = "done"
    /\ Step(p, "idle", NoFrame, NoResult, NoEffects)
    /\ warned' = [warned EXCEPT
                    ![p] = @ \/ (/\ variant = "launcher"
                                 /\ toolWarning(frame[p].op, result[p]))]
    /\ UNCHANGED <<variant, walletsFile, walletFile, legacyFile, dataDir,
                   minted, listings, fees>>

\* ------------------------------------------------------- specification
InitMulti ==
    /\ variant = "multi"
    /\ walletsFile = NoWalletsFile
    /\ walletFile = NoFile
    /\ legacyFile = NoFile
    /\ dataDir = FALSE
    /\ minted = 0
    /\ pc = [p \in Procs |-> "idle"]
    /\ frame = [p \in Procs |-> NoFrame]

\* an installation of the single-identity variant starts with no canonical
\* store and, when an earlier version was used, a wallet in the legacy place
InitSingle ==
    /\ variant = "single"
    /\ walletsFile = NoWalletsFile
    /\ walletFile = NoFile
    /\ \/ legacyFile = NoFile /\ minted = 0
       \/ \E pw \in Passwords :
            legacyFile = FileOf(NewRecord(1, pw)) /\ minted = 1
    /\ dataDir \in BOOLEAN
    /\ pc = [p \in Procs |-> IF p = Main THEN "load" ELSE "off"]
    /\ frame = [p \in Procs |->
                  IF p = Main THEN [NoFrame EXCEPT !.op = "migrate"]
                              ELSE NoFrame]

\* the server over a keystore that holds no wallet, or one: identities and
\* passwords are interchangeable, so the one wallet is that of the first
\* identity under the first password; calls name any identity and password
InitLauncher ==
    /\ variant = "launcher"
    /\ \/ walletsFile = NoWalletsFile /\ minted = 0 /\ dataDir = FALSE
       \/ /\ walletsFile = [exists |-> TRUE,
                             wallets |-> WithRecord(<< >>, 1, NewRecord(1, 1))]
          /\ minted = 1
          /\ dataDir = TRUE
    /\ walletFile = NoFile
    /\ legacyFile = NoFile
    /\ pc = [p \in Procs |-> IF p = Main THEN "idle" ELSE "off"]
    /\ frame = [p \in Procs |-> NoFrame]

Init ==
    /\ InitMulti \/ InitSingle \/ InitLauncher
    /\ listings = << >>
    /\ fees = NoFees
    /\ result = [p \in Procs |-> NoResult]
    /\ effects = [p \in Procs |-> NoEffects]
    /\ warned = [p \in Procs |-> FALSE]

Next ==
    \E p \in Procs :
       \/ \E u \in UserIds, pw \in Passwords : createWallet(p, u, pw)
       \/ createWalletSave(p)
       \/ \E pw \in Passwords : createWalletSingle(p, pw)
       \/ \E u \in Identities : getWalletAddress(p, u)
       \/ \E u \in Identities : getBalance(p, u)
       \/ \E u \in Identities, pw \in Passwords, m \in Messages :
            signMessage(p, u, pw, m)
       \/ \E u \in Identities, pw \in Passwords : getDecryptedWallet(p, u, pw)
       \/ \E u \in Identities, pw \in Passwords, to \in Destinations,
             a \in AmountInputs : transfer(p, u, pw, to, a)
       \/ transferBalance(p)
       \/ transferSend(p)
       \/ transferWait(p)
       \/ \E u \in UserIds, pw \in Passwords : collectFees(p, u, pw)
       \/ collectFeesBalance(p)
       \/ collectFeesPost(p)
       \/ collectFeesConfig(p)
       \/ collectFeesClaim(p)
       \/ collectFeesWait(p)
       \/ \E pw \in Passwords : collectFeesSingle(p, pw)
       \/ collectFeesGraphql(p)
       \/ collectFeesPoolFees(p)
       \/ collectFeesPoolCollect(p)
       \/ collectFeesPoolWait(p)
       \/ \E u \in UserIds, pw \in Passwords, to \in Destinations,
             a \in AmountInputs : walletToolTransfer(p, u, pw, to, a)
       \/ \E u \in UserIds, pw \in Passwords, o \in LaunchOptions :
            launchCoin(p, u, pw, o)
       \/ \E u \in UserIds : myFees(p, u)
       \/ launchCoinSign(p)
       \/ launchCoinPost(p)
       \/ migrateWalletIfNeeded(p)
       \/ migrateMkdir(p)
       \/ migrateRead(p)
       \/ migrateWrite(p)
       \/ migrateUnlink(p)
       \/ Restart(p)
       \/ Finish(p)

Spec == Init /\ [][Next]_vars


\* -------------------------------------------- a store damaged on disk
\* every field of the envelope is as encrypt wrote it
Intact(record) ==
    /\ record.encryptedKey.salt.val # 0
    /\ record.encryptedKey.iv.len = IV_LENGTH
    /\ record.encryptedKey.tag.len = TAG_LENGTH
    /\ ~record.encryptedKey.tag.val.forged
    /\ ~record.encryptedKey.encrypted.flipped

Damages == {"salt", "iv", "tagLength", "tag", "ciphertext"}

\* one field of the envelope no longer holds what encrypt wrote: another
\* salt, an iv or a tag that decodes to no bytes, other tag or ciphertext bytes
Damaged(record, field) ==
    CASE field = "salt" ->
           [record EXCEPT !.encryptedKey.salt.val = 0]
      [] field = "iv" ->
           [record EXCEPT !.encryptedKey.iv.len = 0]
      [] field = "tagLength" ->
           [record EXCEPT !.encryptedKey.tag.len = 0]
      [] field = "tag" ->
           [record EXCEPT !.encryptedKey.tag.val.forged = TRUE]
      [] field = "ciphertext" ->
           [record EXCEPT !.encryptedKey.encrypted.flipped = TRUE]

\* the environment damages the envelope of one stored record
Corrupt ==
    /\ \A p \in Procs : pc[p] \in {"idle", "off"}
    /\ \E field \in Damages :
         \/ /\ variant = "multi"
            /\ walletsFile.exists
            /\ \E u \in DOMAIN walletsFile.wallets :
                 /\ Intact(walletsFile.wallets[u])
                 /\ walletsFile' =
                      [walletsFile EXCEPT
                         !.wallets[u] = Damaged(walletsFile.wallets[u], field)]
            /\ UNCHANGED walletFile
         \/ /\ variant = "single"
            /\ walletFile.exists /\ ~walletFile.malformed
            /\ Intact(walletFile.wallet)
            /\ walletFile' =
                 [walletFile EXCEPT !.wallet = Damaged(walletFile.wallet, field)]
            /\ UNCHANGED walletsFile
    /\ UNCHANGED <<warned, listings, fees, variant, legacyFile, dataDir, pc, frame, result, effects,
                   minted>>

NextDamaged == Next \/ Corrupt

SpecDamaged == Init /\ [][NextDamaged]_vars


\* ================================================== the claims, settled
\* the password a record's envelope was sealed with
SealedWith(record) == record.encryptedKey.encrypted.key.password

\* whether the store holds a record for the identity
RecordPresent(userId) ==
    IF variant # "single"
      THEN walletsFile.exists /\ userId \in DOMAIN walletsFile.wallets
      ELSE walletFile.exists /\ ~walletFile.malformed

Returned_(p, op) == pc[p] = "done" /\ frame[p].op = op
CredentialOps == {"sign", "transfer", "collectFees", "getDecryptedWallet"}

\* C1: a create call for an identity that already has a record returns
\* AlreadyExists in its first step, generates no secret and leaves every
\* store file exactly as it was, whatever password it is given.
C1_CreateExistingIsRefused ==
    [][\A p \in Procs :
         (/\ pc[p] = "idle"
          /\ pc'[p] # "idle"
          /\ frame'[p].op = "create"
          /\ RecordPresent(frame'[p].userId))
         => (/\ pc'[p] = "done"
             /\ ~result'[p].success
             /\ result'[p].error = ErrAlreadyExists
             /\ effects'[p] = NoEffects
             /\ walletsFile' = walletsFile
             /\ walletFile' = walletFile
             /\ minted' = minted)]_vars

\* a second create under another password was refused
C1_Witness ==
    \E p \in Procs :
       /\ Returned_(p, "create")
       /\ frame[p].existed
       /\ result[p].error = ErrAlreadyExists
       /\ frame[p].password # SealedWith(frame[p].record)

\* C2: when two create calls for different identities on the same store file
\* have both returned success, the store holds the records of both.
C2_BothRecordsPresent ==
    \A p, q \in Procs :
       (/\ p # q
        /\ Returned_(p, "create") /\ result[p].success
        /\ Returned_(q, "create") /\ result[q].success
        /\ frame[p].userId # frame[q].userId)
       => (/\ hasRecord(walletsFile.wallets, frame[p].userId)
           /\ hasRecord(walletsFile.wallets, frame[q].userId))

\* a credential-bearing call given a password other than the sealing one
WrongPassword(p) ==
    /\ frame[p].op \in CredentialOps
    /\ frame[p].existed
    /\ frame[p].password # SealedWith(frame[p].record)

\* the call yielded no key, signature, broadcast, contract call or request
YieldedNothing(p) ==
    /\ ~result[p].success
    /\ result[p].wallet = NoKey
    /\ result[p].signature = NoSignature
    /\ frame[p].privateKey = NoKey
    /\ effects[p].unlocked = 0
    /\ effects[p].signatures = 0
    /\ effects[p].broadcasts = 0
    /\ effects[p].directCalls = 0
    /\ effects[p].remoteCalls = {}

\* C3 as stated: with a wrong password every credential-bearing operation
\* returns InvalidPassword and yields nothing.
C3_Original ==
    \A p \in Procs :
       WrongPassword(p)
       => (/\ pc[p] = "done"
           /\ result[p].error = ErrInvalidPassword
           /\ YieldedNothing(p))

\* C3 amended: with a wrong password every credential-bearing operation ends
\* in its first step and yields nothing; it returns InvalidPassword, except
\* a transfer to a malformed destination, which returns InvalidAddress.
C3_WrongPasswordYieldsNothing ==
    \A p \in Procs :
       WrongPassword(p)
       => (/\ pc[p] = "done"
           /\ YieldedNothing(p)
           /\ result[p].error =
                IF frame[p].op = "transfer" /\ ~isAddress(frame[p].toAddress)
                  THEN ErrInvalidAddress ELSE ErrInvalidPassword)

C3_Witness ==
    \E p \in Procs :
       /\ WrongPassword(p)
       /\ frame[p].op = "transfer"
       /\ isAddress(frame[p].toAddress)
       /\ result[p].error = ErrInvalidPassword

\* C4: in sign, transfer and collectFees every failure to open the envelope,
\* by a wrong password or by a damaged envelope, returns InvalidPassword.
C4_OpenFailureIsInvalidPassword ==
    \A p \in Procs :
       (/\ pc[p] = "done"
        /\ frame[p].op \in {"sign", "transfer", "collectFees"}
        /\ frame[p].existed
        /\ frame[p].op = "transfer" => isAddress(frame[p].toAddress)
        /\ ~decrypt(frame[p].record.encryptedKey, frame[p].password).ok)
       => (~result[p].threw /\ result[p].error = ErrInvalidPassword)

\* a transfer call that read a balance smaller than the amount it was given
AmountExceedsObserved(p) ==
    /\ frame[p].op = "transfer"
    /\ frame[p].observed
    /\ frame[p].amount.numeric
    /\ frame[p].amount.wei > frame[p].balance

\* C5: a transfer call whose amount is greater than the balance it observes
\* never broadcasts a transaction.
C5_NoBroadcastBeyondBalance ==
    \A p \in Procs :
       AmountExceedsObserved(p)
       => (effects[p].broadcasts = 0
           /\ pc[p] \notin {"transfer_send", "transfer_wait"})

C5_Witness ==
    \E p \in Procs :
       /\ AmountExceedsObserved(p)
       /\ pc[p] = "done"
       /\ effects[p].unlocked = 1
       /\ effects[p].broadcasts = 0

\* C6 as stated: a transfer call with an amount greater than the account's
\* current balance returns InsufficientBalance, whatever the other arguments.
C6_Original ==
    \A p \in Procs :
       (/\ Returned_(p, "transfer")
        /\ frame[p].existed
        /\ frame[p].amount.numeric
        /\ frame[p].amount.wei > frame[p].balance)
       => result[p].error = ErrInsufficient

\* C6 amended: a transfer call for an existing identity, with a well-formed
\* destination and a password that opens the envelope, that reads a balance
\* smaller than its amount returns InsufficientBalance with both amounts.
C6_InsufficientBalanceReported ==
    \A p \in Procs :
       (pc[p] = "done" /\ AmountExceedsObserved(p))
       => (/\ ~result[p].success
           /\ result[p].error = ErrInsufficient
           /\ result[p].have = frame[p].balance
           /\ result[p].want = frame[p].amount.wei)

C6_Witness ==
    \E p \in Procs :
       /\ pc[p] = "done"
       /\ AmountExceedsObserved(p)
       /\ result[p].error = ErrInsufficient
       /\ result[p].have = 0
       /\ result[p].want > 0

\* a collectFees call that has unlocked the account
Collecting(p) == frame[p].op = "collectFees" /\ effects[p].unlocked = 1

\* C7: when the unlocked account's gas balance is zero, collectFees takes the
\* sponsored path and never attempts a direct on-chain contract call.
C7_ZeroBalanceNeverDirect ==
    \A p \in Procs :
       (Collecting(p) /\ frame[p].balance = 0)
       => effects[p].directCalls = 0

\* C8 as stated: with a gas balance greater than zero collectFees of
\* src/lib/wallet.js calls no remote service, and its success result is
\* tagged method: direct.
C8_Original ==
    \A p \in Procs :
       (variant = "multi" /\ Collecting(p) /\ frame[p].balance > 0)
       => (/\ effects[p].remoteCalls = {}
           /\ (pc[p] = "done" /\ result[p].success)
                => result[p].method = "direct")

\* C8 amended: with a gas balance greater than zero collectFees signs no
\* claim message and never calls the remote collection endpoint; the
\* multi-identity collectFees asks the remote API for the contract config
\* only, and its success result is tagged method: direct after one on-chain
\* claim call.
C8_PositiveBalanceIsDirect ==
    \A p \in Procs :
       (Collecting(p) /\ frame[p].balance > 0)
       => (/\ effects[p].signatures = 0
           /\ "/api/collect-fees" \notin effects[p].remoteCalls
           /\ pc[p] # "collect_post"
           /\ variant = "multi"
                => (/\ effects[p].remoteCalls \subseteq {"/api/config"}
                    /\ (pc[p] = "done" /\ result[p].success)
                         => (/\ result[p].method = "direct"
                             /\ effects[p].directCalls = 1)))

C8_Witness ==
    \E p \in Procs :
       /\ variant = "multi"
       /\ Collecting(p)
       /\ frame[p].balance > 0
       /\ pc[p] = "done"
       /\ result[p].success
       /\ result[p].method = "direct"

\* a migration run that has ended
Migrated(p) == pc[p] = "done" /\ frame[p].op = "migrate"

\* the file holds a wallet record
HoldsRecord(file) == file.exists /\ ~file.malformed

\* the run changed nothing on disk
NoFileChanged(p) ==
    /\ effects[p].fileWrites = 0
    /\ walletFile = frame[p].canonicalBefore
    /\ legacyFile = frame[p].legacyBefore

C10_MigrationKeepsRecords ==
    \A p \in Procs :
       (frame[p].op = "migrate" /\ pc[p] # "load")
       => (/\ HoldsRecord(frame[p].canonicalBefore)
                => walletFile = frame[p].canonicalBefore
           /\ HoldsRecord(frame[p].legacyBefore)
                => (\/ legacyFile = frame[p].legacyBefore
                    \/ walletFile = frame[p].legacyBefore))

\* a run whose copy failed midway: the legacy record is still in place
C10_Witness ==
    \E p \in Procs :
       /\ Migrated(p)
       /\ effects[p].caught
       /\ walletFile = PartialFile
       /\ HoldsRecord(frame[p].legacyBefore)
       /\ legacyFile = frame[p].legacyBefore

\* the caller-facing operations of the engine
EngineOps ==
    {"create", "getAddress", "getBalance", "sign", "transfer", "collectFees"}

\* C11: no caller-facing operation throws to its caller: each call that ends
\* has returned a tagged result, also over a store file with malformed JSON.
C11_NeverThrows ==
    \A p \in Procs :
       (pc[p] = "done" /\ frame[p].op \in EngineOps) => ~result[p].threw

\* C12: no call that is waiting for a confirmation receipt, in transfer or in
\* the direct path of collectFees, still holds the decrypted key.
C12_KeyReleasedBeforeWait ==
    \A p \in Procs :
       pc[p] \in {"transfer_wait", "collect_wait"}
       => frame[p].privateKey = NoKey

\* C13: once an exported operation has returned, its caller holds no
\* decrypted key.
C13_NoKeyAfterReturn ==
    \A p \in Procs : pc[p] = "done" => result[p].wallet = NoKey

\* C14: between calls nothing is held (every call starts from Locked); a
\* credential-bearing call unlocks only by one decryption, in that call, of
\* the stored envelope under the password supplied with it, succeeds only if
\* it unlocked, and holds no key once it has ended.
C14_EveryCallStartsLocked ==
    \A p \in Procs :
       /\ pc[p] \in {"idle", "off"}
            => (frame[p] = NoFrame /\ effects[p] = NoEffects)
       /\ pc[p] = "done" => frame[p].privateKey = NoKey
       /\ frame[p].op \in CredentialOps
            => (/\ effects[p].unlocked = 1
                     => (/\ effects[p].decrypts = 1
                         /\ frame[p].existed
                         /\ decrypt(frame[p].record.encryptedKey,
                                    frame[p].password).ok)
                /\ (pc[p] = "done" /\ result[p].success)
                     => effects[p].unlocked = 1
                /\ frame[p].privateKey # NoKey => effects[p].unlocked = 1)

\* a sign call under a password that does not open the envelope has failed,
\* in a store whose record other passwords open
C14_Witness ==
    \E p \in Procs :
       /\ Returned_(p, "sign")
       /\ WrongPassword(p)
       /\ effects[p].decrypts = 1
       /\ effects[p].unlocked = 0
       /\ result[p].error = ErrInvalidPassword

\* the operations that look an identity's record up
LookupOps == {"getAddress", "getBalance", "sign", "transfer", "collectFees"}

\* the store file, when present, parses
StoreReadable ==
    variant = "single" => ~(walletFile.exists /\ walletFile.malformed)

\* C15: over a readable store without a record for the identity, getAddress,
\* getBalance, sign, transfer and collectFees return NoWallet in their first
\* step, without decryption, network read, broadcast or remote call, whatever
\* the password and the other arguments.
C15_NoWalletHasNoEffects ==
    \A p \in Procs :
       (/\ frame[p].op \in LookupOps
        /\ StoreReadable
        /\ ~RecordPresent(frame[p].userId))
       => (/\ pc[p] = "done"
           /\ ~result[p].success
           /\ ~result[p].threw
           /\ result[p].error = ErrNoWallet
           /\ effects[p] = NoEffects)

\* a transfer for an absent identity, with a malformed destination
C15_Witness ==
    \E p \in Procs :
       /\ Returned_(p, "transfer")
       /\ ~frame[p].existed
       /\ ~isAddress(frame[p].toAddress)
       /\ frame[p].amount.numeric
       /\ result[p].error = ErrNoWallet

\* the fields of a request that hold public data
PublicFields ==
    {"walletAddress", "message", "signature", "name", "symbol",
     "description", "creator"}

\* the request an endpoint is sent, computed from public data alone: the
\* stored address, the caller's options, and a signature attributed to the
\* address over a message built from them
PublicRequest(endpoint, address, options) ==
    LET holder == [privateKey |-> NoKey, address |-> address]
        signed(message) == [signer |-> address, message |-> message]
    IN CASE endpoint = "/api/collect-fees" ->
              collectFeesRequest(holder, collectFeesMessage(address),
                                 signed(collectFeesMessage(address)))
         [] endpoint = "/api/launch" ->
              launchRequest(holder, launchMessage(options, address),
                            signed(launchMessage(options, address)), options)
         [] endpoint = "/graphql" -> graphqlRequest(address)
         [] OTHER -> configRequest

\* C16: every request sent to a remote service is made of public fields
\* only, and is the request computed from the stored address, the signed
\* message, the signature and the caller's public options: it carries
\* neither the private key, the password nor the envelope.
C16_RequestsCarryNoSecret ==
    \A p \in Procs : \A r \in effects[p].requests :
       /\ \A part \in r.body : part[1] \in PublicFields
       /\ r = PublicRequest(r.endpoint, frame[p].record.address,
                            frame[p].options)

\* a fee collection or launch request went out with the stored address
C16_Witness ==
    \E p \in Procs : \E r \in effects[p].requests :
       /\ r.endpoint \in {"/api/collect-fees", "/api/launch"}
       /\ <<"walletAddress", frame[p].record.address>> \in r.body
       /\ pc[p] = "done"
       /\ result[p].success

\* the texts of the low-level errors a result embeds
LowLevelTexts ==
    {"", MsgBadIv, MsgBadTagLength, MsgAuthFailed, MsgNetwork,
     MsgNetworkUnauthorized, MsgBadAmount, MsgBadJson, MsgTxFailed}

\* C17: no result returned by create, getAddress, getBalance, sign, transfer
\* or collectFees, success or error, holds the private key or the password:
\* it holds no wallet object, its address is the stored public address, its
\* signature is the one over the caller's message, and an embedded low-level
\* text is the text of the runtime's error.
C17_ResultsCarryNoSecret ==
    \A p \in Procs :
       (pc[p] = "done" /\ frame[p].op \in EngineOps)
       => (/\ result[p].wallet = NoKey
           /\ result[p].address \in {NoAddress, frame[p].record.address}
           /\ IF frame[p].op = "sign" /\ result[p].success
                THEN result[p].signature
                       = [signer |-> frame[p].record.address,
                          message |-> frame[p].message]
                ELSE result[p].signature.signer = NoAddress
           /\ result[p].detail \in LowLevelTexts)

\* a sign call has unlocked the account and returned its signature
C17_Witness ==
    \E p \in Procs :
       /\ Returned_(p, "sign")
       /\ result[p].success
       /\ result[p].signature.signer = frame[p].record.address
       /\ effects[p].unlocked = 1

\* the operations that only read the store
ReadOnlyOps ==
    {"getAddress", "getBalance", "sign", "transfer", "collectFees",
     "getDecryptedWallet", "launch"}

\* a step leaves every record that is in the store as it is
RecordsKept ==
    /\ \A u \in UserIds :
         (walletsFile.exists /\ u \in DOMAIN walletsFile.wallets)
         => (/\ walletsFile'.exists
             /\ u \in DOMAIN walletsFile'.wallets
             /\ walletsFile'.wallets[u] = walletsFile.wallets[u])
    /\ HoldsRecord(walletFile) => walletFile' = walletFile

\* C18: no step of any operation changes or removes a record that exists
\* (its address, envelope and createdAt stay), and a step of a read-only
\* operation leaves the whole store content unchanged.
C18_RecordsImmutable ==
    [][/\ RecordsKept
       /\ \A p \in Procs :
            (frame[p].op \in ReadOnlyOps /\ pc'[p] # pc[p])
            => (walletsFile' = walletsFile /\ walletFile' = walletFile)]_vars

\* every record in a store file holds the address of the key it seals
AddressesMatch ==
    /\ walletsFile.exists
         => \A u \in DOMAIN walletsFile.wallets :
               walletsFile.wallets[u].address
                 = computeAddress(walletsFile.wallets[u].encryptedKey.encrypted.text)
    /\ \A file \in {walletFile, legacyFile} :
         HoldsRecord(file)
         => file.wallet.address
              = computeAddress(file.wallet.encryptedKey.encrypted.text)

\* C19: each stored record's address is the address of the key sealed in its
\* envelope, and once create has returned address A the store holds, for
\* that identity, a record with address A (so that getAddress returns A and
\* sign is attributed to A).
C19_AddressMatchesSealedSecret ==
    /\ AddressesMatch
    /\ \A p \in Procs :
         (Returned_(p, "create") /\ result[p].success)
         => (/\ RecordPresent(frame[p].userId)
             /\ lookup(frame[p].userId).record.address = result[p].address)

\* C20: a transfer call for an existing identity with a malformed
\* destination returns InvalidAddress in its first step, without decryption,
\* balance read or broadcast, whatever the password and the amount.
C20_MalformedDestinationIsRefused ==
    \A p \in Procs :
       (/\ frame[p].op = "transfer"
        /\ frame[p].existed
        /\ frame[p].toAddress = "not-an-address")
       => (/\ pc[p] = "done"
           /\ ~result[p].success
           /\ result[p].error = ErrInvalidAddress
           /\ effects[p] = NoEffects)

\* refused although the password opens the envelope and the amount is sound
C20_Witness ==
    \E p \in Procs :
       /\ Returned_(p, "transfer")
       /\ frame[p].existed
       /\ frame[p].toAddress = "not-an-address"
       /\ frame[p].password = SealedWith(frame[p].record)
       /\ frame[p].amount.numeric
       /\ result[p].error = ErrInvalidAddress

\* C21: no call broadcasts again after a failure: a transfer call and a
\* collectFees call of src/lib/wallet.js broadcast at most one transaction,
\* the single-identity collectFees at most one per pool it has reached, and
\* a call that has ended after a failed confirmation wait has broadcast once.
C21_NoAutomaticRetry ==
    \A p \in Procs :
       /\ frame[p].op = "transfer" => effects[p].broadcasts <= 1
       /\ (frame[p].op = "collectFees" /\ variant = "multi")
            => effects[p].broadcasts <= 1
       /\ (frame[p].op = "collectFees" /\ variant = "single")
            => effects[p].broadcasts <= frame[p].index
       /\ frame[p].op \in {"create", "getAddress", "getBalance", "sign",
                            "getDecryptedWallet", "launch"}
            => effects[p].broadcasts = 0

\* a transfer whose confirmation wait failed has ended, one broadcast made
C21_Witness ==
    \E p \in Procs :
       /\ Returned_(p, "transfer")
       /\ ~result[p].success
       /\ result[p].detail = MsgTxFailed
       /\ effects[p].broadcasts = 1

\* decrypt undoes encrypt under the same password, whatever salt and iv
RoundTrip ==
    \A S \in PrivateKeys, P \in Passwords :
       \A salt \in PrivateKeys, iv \in PrivateKeys :
          decrypt(encrypt(S, P, salt, iv), P) = Returned(S)

\* C22: decrypting the envelope encrypt made of a secret under a password,
\* with that password, returns the secret, for every secret, password, salt
\* and iv; and every call given the password a stored record was sealed with
\* opens the record's envelope and obtains the key sealed in it.
C22_EnvelopeRoundTrip ==
    /\ RoundTrip
    /\ \A p \in Procs :
         (/\ pc[p] = "done"
          /\ frame[p].op \in CredentialOps
          /\ frame[p].existed
          /\ frame[p].op = "transfer" => isAddress(frame[p].toAddress)
          /\ frame[p].password = SealedWith(frame[p].record))
         => (/\ effects[p].decrypts = 1
             /\ effects[p].unlocked = 1
             /\ frame[p].op = "getDecryptedWallet"
                  => (/\ result[p].success
                      /\ result[p].wallet
                           = frame[p].record.encryptedKey.encrypted.text
                      /\ computeAddress(result[p].wallet)
                           = frame[p].record.address))

\* getDecryptedWallet has returned the key createWallet sealed
C22_Witness ==
    \E p \in Procs :
       /\ Returned_(p, "getDecryptedWallet")
       /\ frame[p].password = SealedWith(frame[p].record)
       /\ result[p].wallet \in PrivateKeys
       /\ computeAddress(result[p].wallet) = frame[p].record.address

\* the salt and the iv of a record's envelope
SaltIv(record) ==
    <<record.encryptedKey.salt.val, record.encryptedKey.iv.val>>

\* the processes whose create call has sealed a new key
Sealing == {p \in Procs : frame[p].op = "create" /\ effects[p].generated = 1}

\* the records in the store files
StoredRecords ==
    {walletsFile.wallets[u] : u \in DOMAIN walletsFile.wallets}
      \cup {file.wallet : file \in {f \in {walletFile, legacyFile} :
                                       HoldsRecord(f)}}

\* one secret sealed under one password with two salt/iv pairs gives two
\* ciphertexts
CiphertextsDiffer ==
    \A S \in PrivateKeys, P \in Passwords :
       \A s1 \in PrivateKeys, i1 \in PrivateKeys :
          \A s2 \in PrivateKeys, i2 \in PrivateKeys :
             <<s1, i1>> # <<s2, i2>>
             => encrypt(S, P, s1, i1).encrypted
                  # encrypt(S, P, s2, i2).encrypted

\* C23: every seal draws a fresh salt and iv: the envelopes of two create
\* calls, of two stored identities, and of a create call and another stored
\* record never share a salt/iv pair, and sealing one secret under one
\* password with two salt/iv pairs gives two ciphertexts.
C23_FreshSaltAndIv ==
    /\ CiphertextsDiffer
    /\ \A p \in Sealing : \A q \in Sealing \ {p} :
         SaltIv(frame[p].record) # SaltIv(frame[q].record)
    /\ \A u \in DOMAIN walletsFile.wallets :
         \A v \in DOMAIN walletsFile.wallets \ {u} :
            SaltIv(walletsFile.wallets[u]) # SaltIv(walletsFile.wallets[v])
    /\ \A p \in Sealing : \A r \in StoredRecords \ {frame[p].record} :
         SaltIv(frame[p].record) # SaltIv(r)
    /\ \A r1 \in StoredRecords : \A r2 \in StoredRecords \ {r1} :
         SaltIv(r1) # SaltIv(r2)

\* two identities hold envelopes sealed under one password
C23_Witness ==
    \E u \in DOMAIN walletsFile.wallets :
       \E v \in DOMAIN walletsFile.wallets \ {u} :
          /\ SealedWith(walletsFile.wallets[u])
               = SealedWith(walletsFile.wallets[v])
          /\ walletsFile.wallets[u].encryptedKey.encrypted
               # walletsFile.wallets[v].encryptedKey.encrypted

\* C24: no transfer call made through the wallet tool broadcasts a
\* transaction unless an earlier response to its caller carried the
\* irreversibility warning.
C24_WarnedBeforeSending ==
    \A p \in Procs :
       (/\ variant = "launcher"
        /\ frame[p].op = "transfer"
        /\ effects[p].broadcasts > 0)
       => warned[p]

\* the sum of the amounts of the first n fee records of a user
RECURSIVE LedgerTotal(_, _)
LedgerTotal(userId, n) ==
    IF n = 0 THEN 0
    ELSE LedgerTotal(userId, n - 1)
           + (IF fees.records[n].userId = userId
                THEN fees.records[n].amount ELSE 0)

\* the fee ledger agrees with itself: a user's total is the sum of the
\* user's records
TotalsAgree ==
    \A u \in UserIds :
       getMyFees(u).summary.totalEarned = LedgerTotal(u, Len(fees.records))

\* C25: the totalEarned the my-fees tool returns for a user is the total of
\* the fees recorded for that user in the fee ledger.
C25_MyFeesReportsLedgerTotal ==
    \A p \in Procs :
       Returned_(p, "myFees")
       => result[p].totalEarned
            = LedgerTotal(frame[p].userId, Len(fees.records))

\* C26: the single-identity collectFees sends a collect transaction for a
\* pool only if the pool's accumulated fees, its ETH fees and what its token
\* fees convert to, meet the minimum; a pool below it is skipped.
C26_CollectOnlyAboveMinimum ==
    \A p \in Procs :
       (/\ variant = "single"
        /\ frame[p].op = "collectFees"
        /\ pc[p] \in {"pool_collect", "pool_wait"})
       => frame[p].ethFees + frame[p].tokenWorth >= MIN_FEE_COLLECTION

\* the listing a launchCoin call created
Created(p) == listings[frame[p].listingId]

\* C27: when launchCoin returns, the listing it created is launched or
\* failed, never pending, on every path; and a call that fails validation,
\* the wallet check or the unlock creates no listing.
C27_ListingSettledOnReturn ==
    \A p \in Procs :
       Returned_(p, "launch")
       => (/\ frame[p].listingId # 0
                => Created(p).status \in {"launched", "failed"}
           /\ effects[p].unlocked = 0
                => (frame[p].listingId = 0 /\ effects[p].fileWrites = 0))

\* the fee ledger holds a record for the coin
FeeRecorded(coinId) ==
    \E i \in DOMAIN fees.records : fees.records[i].coinId = coinId

\* C30: launchCoin returns success, marks its listing launched and records
\* a launch fee only if the deployment API answered the launch request with
\* a success response.
C30_LaunchedOnlyOnApiSuccess ==
    \A p \in Procs :
       (/\ Returned_(p, "launch")
        /\ \/ result[p].success
           \/ /\ frame[p].listingId # 0
              /\ \/ Created(p).status = "launched"
                 \/ FeeRecorded(frame[p].listingId))
       => frame[p].response = "success"

\* C28: a credential-bearing operation returns InvalidPassword only if
\* opening the stored envelope with the supplied password failed; a failure
\* of a later step under a password that opens it is reported otherwise.
C28_InvalidPasswordMeansOpenFailed ==
    \A p \in Procs :
       (/\ pc[p] = "done"
        /\ frame[p].op \in CredentialOps
        /\ result[p].error = ErrInvalidPassword)
       => (/\ frame[p].existed
           /\ ~decrypt(frame[p].record.encryptedKey, frame[p].password).ok)

\* C29: a transfer call that returns an error result has broadcast no
\* transaction.
C29_ErrorMeansNothingSent ==
    \A p \in Procs :
       (Returned_(p, "transfer") /\ ~result[p].success)
       => effects[p].broadcasts = 0

====
